---- MODULE Spec2Model ----
(***************************************************************************)
(* Verification model of the wmproxy control plane (src/control/app.rs)   *)
(* and of the intranet tunnel client (src/streams/center_client.rs).       *)
(*                                                                         *)
(* Independent state machines share this module:                           *)
(*   Spec        the ControlApp lifecycle: start_serve, start_control,     *)
(*               the HTTP handlers of inner_operate and the generation     *)
(*               tasks spawned by inner_start_server;                      *)
(*   SpecClient  the CenterClient reconnect task: serve, inner_connect,    *)
(*               inner_serve and the substream tasks it spawns;            *)
(*   SpecCodec   the codec of the Data frame (src/prot/data.rs);           *)
(*   SpecWrap    the listener wrapper (src/core/listeners/                 *)
(*               wrap_listener.rs): try_init and accept.                   *)
(***************************************************************************)
EXTENDS Integers, Sequences, FiniteSets, TLC

(***************************************************************************)
(* Bounds of the model.                                                    *)
(***************************************************************************)
\* number of HTTP requests the control port accepts in one run
MaxReq == 2
\* number of try_init and accept calls made on a WrapListener in one run
MaxCalls == 3
\* number of distinct configurations arg::parse_env can return
NumConfigs == 2
\* number of frames (or end-of-stream events) the server side delivers
MaxRecv == 2
\* number of frames the server side delivers in a run of the data path
MaxRecvData == 3
\* number of frames one read of the transport can bring
MaxChunk == 2
\* number of deal_new_stream calls
MaxLocal == 1
\* number of Data frames the substream tasks send in a run
MaxSubData == 1
\* number of ids the server uses in its Creates
NumServerIds == 1
\* number of deal_new_stream calls in a run of the id allocator
MaxLocalIds == 3
\* width in bits of the id counter in the model (the program's is a u32, line 36)
IdBits == 2
\* width in bits of the length field of a frame header in the model (the
\* program's is 24)
LenBits == 4
\* width in bits of a u32 in the model of the codec (the program's is 32)
WordBits == 5
\* capacity of the outbound channel in the model (the program's is 100, line 76)
ReceiverCap == 1
\* capacity of the work channel in the model (the program's is 10, line 77)
WorkCap == 1
\* capacity of a substream's inbound channel in the model (the program's is
\* 10, lines 224 and 381)
VirtualCap == 1

(***************************************************************************)
(* Program constants.                                                      *)
(***************************************************************************)
\* channel::<()>(1) of ControlApp::new: the lifecycle channel
CtrlCap == 1
\* channel::<()>(1) of inner_start_server: a generation's shutdown channel
ShutCap == 1
\* the ControlApp mutex is held by nobody
NoHolder == 0
\* the ControlApp mutex is held by the task running start_control
MainTask == -1

VARIABLES
    \* ---- ControlApp (control/app.rs:28-39) ----
    option,                 \* ControlApp.option, a configuration id
    disable_control,        \* ControlApp.option.disable_control
    server_sender_close,    \* 0 = None, g = Some(sender of generation g's shutdown channel)
    control_receiver_close, \* TRUE = Some(receiver) is stored in the struct
    count,                  \* ControlApp.count
    ctrlChan,               \* number of () buffered in the lifecycle channel
    lock,                   \* holder of Arc<Mutex<ControlApp>>
    mainpc,                 \* position of the task running start_serve/start_control
    gens,                   \* the generations spawned by inner_start_server
    req                     \* the HTTP requests accepted on the control port

ctlvars == <<option, disable_control, server_sender_close, control_receiver_close,
             count, ctrlChan, lock, mainpc, gens, req>>

VARIABLES
    \* ---- CenterClient (streams/center_client.rs:41-66) ----
    tls_client,     \* CenterClient.tls_client.is_some()
    username,       \* option.username.is_some()
    password,       \* option.password.is_some()
    mappings,       \* CenterClient.mappings
    stream,         \* the plain transport the reconnect task holds (TRUE = Some)
    tls_stream,     \* the TLS transport the reconnect task holds (TRUE = Some)
    taskpc,         \* position of the task spawned by serve
    reachable,      \* whether inner_connect would succeed now
    tunnel,         \* number of tunnels served so far (calls of inner_serve)
    servepc,        \* position inside inner_serve
    map,            \* inner_serve's HashMap: sock_map -> index in subs of the Sender
    read_buf,       \* frames read from the transport and not yet decoded
    write_buf,      \* frames encoded and not yet written
    wire,           \* number of frames written to the transport of the current tunnel
    receiver,       \* the outbound channel (frames for the server)
    receiver_work,  \* the channel of Creates from deal_new_stream
    subs,           \* the substream channels and the tasks reading them
    NEXT_ID,        \* the process-wide id counter
    nrecv,          \* number of frames received from the server so far
    limit,          \* number of frames the server side delivers in this run
    locals          \* number of deal_new_stream calls in this run

clivars == <<tls_client, username, password, mappings, stream, tls_stream, taskpc,
             reachable, tunnel, servepc, map, read_buf, write_buf, wire,
             receiver, receiver_work, subs, NEXT_ID, nrecv, limit, locals>>

VARIABLES
    \* ---- ProtData (prot/data.rs:12-15) and a call of its codec ----
    pdata,          \* the ProtData that is encoded
    out,            \* the buffer encode writes to
    ret,            \* what encode returned
    back            \* what parse returned for the frame read from the buffer

codvars == <<pdata, out, ret, back>>

VARIABLES
    \* ---- WrapListener (core/listeners/wrap_listener.rs:15-20) ----
    addrs,          \* WrapListener.addrs.is_some()
    listener,       \* 0 = None, n = Some(the n-th listening socket of the run)
    accepter,       \* WrapListener.accepter.is_some()
    desc,           \* WrapListener.desc
    sockets,        \* number of listening sockets created so far
    calls           \* the try_init and accept calls made so far, with their results

lsnvars == <<addrs, listener, accepter, desc, sockets, calls>>

vars == <<ctlvars, clivars, codvars, lsnvars>>

\* what the control plane leaves alone, and what the tunnel client, the codec
\* and the listener wrapper leave alone
notctl == <<clivars, codvars, lsnvars>>
notcli == <<ctlvars, codvars, lsnvars>>
notcod == <<ctlvars, clivars, lsnvars>>
notlsn == <<ctlvars, clivars, codvars>>

Configs == 1..NumConfigs
\* arg::parse_env(): Ok(configuration c) or Err, written 0
ParseEnvResults == 0..NumConfigs
Paths == {"/reload", "/stop", "/now", "/other"}

Range(s) == {s[i] : i \in DOMAIN s}

(***************************************************************************)
(* Generations.  gens[g] is the task spawned by the g-th call of           *)
(* inner_start_server together with the shutdown channel created for it:   *)
(*   st      "running" until the task has sent its termination signal      *)
(*   option  the configuration WMCore::new was given                       *)
(*   senders the holders of the channel's Sender ("control" is the field   *)
(*           server_sender_close, "gen" the next generation's task)        *)
(*   recv    TRUE while the channel's Receiver is held by the task         *)
(*   msgs    number of () buffered in the shutdown channel                 *)
(***************************************************************************)
Live(g) == g \in DOMAIN gens /\ gens[g].st = "running"
LiveGens == {g \in DOMAIN gens : gens[g].st = "running"}

\* a start that does not take its unit of the refcount
CountAfterStart_NotCounted(c) == c

\* line 85: self.count += 1
CountAfterStart(c) == c + 1

\* line 83 and the end of the function: the previous generation's sender is
\* taken out of the struct; the spawned block does not use it (the call that
\* would is commented out, lines 89-91), so it is dropped when the function
\* returns
SendersOfPreviousAfterStart(s) == s \ {"control"}

\* the spawned block keeps receiver_no_listen (as the call of lines 89-91 would)
ReceiverHeldAfterStart_Kept == TRUE

\* line 82 and the end of the function: receiver_no_listen is not used by the
\* spawned block either and is dropped when the function returns
ReceiverHeldAfterStart == FALSE

\* inner_start_server(opt): lines 80-97
InnerStartServer(opt) ==
    LET g == Len(gens) + 1
        old == server_sender_close
        closed == IF old = 0 THEN gens
                  ELSE [gens EXCEPT ![old].senders = SendersOfPreviousAfterStart(@)]
    IN /\ count' = CountAfterStart(count)
       /\ gens' = Append(closed, [st |-> "running", option |-> opt,
                                  senders |-> {"control"},
                                  recv |-> ReceiverHeldAfterStart, msgs |-> 0])
       /\ server_sender_close' = g

\* the spawned block, lines 86-94: WMCore::new(option), then
\* sender.send(()).await on the lifecycle channel (waits while it is full)
GenTerminate(g) ==
    /\ mainpc # "exited"
    /\ Live(g)
    /\ ctrlChan < CtrlCap
    /\ ctrlChan' = ctrlChan + 1
    /\ gens' = [gens EXCEPT ![g].st = "done"]
    /\ UNCHANGED <<option, disable_control, server_sender_close,
                   control_receiver_close, count, lock, mainpc, req>>

(***************************************************************************)
(* The main task: start_serve, then start_control.                         *)
(***************************************************************************)
\* start_serve, lines 66-68
StartServe ==
    /\ mainpc = "new"
    /\ InnerStartServer(option)
    /\ mainpc' = "start_control"
    /\ UNCHANGED <<option, disable_control, control_receiver_close, ctrlChan, lock, req>>

\* start_control, lines 158-175, with the control plane disabled: the receiver
\* is taken and awaited while the guard of the mutex is still alive
StartControlDisabled ==
    /\ mainpc = "start_control"
    /\ lock = NoHolder
    /\ disable_control
    /\ control_receiver_close' = FALSE
    /\ lock' = MainTask
    /\ mainpc' = "disabled_wait"
    /\ UNCHANGED <<option, disable_control, server_sender_close, count, ctrlChan, gens, req>>

\* lines 161-163: receiver_await returns on the first signal and start_control
\* returns without touching count
DisabledReturn ==
    /\ mainpc = "disabled_wait"
    /\ ctrlChan > 0
    /\ ctrlChan' = ctrlChan - 1
    /\ lock' = NoHolder
    /\ mainpc' = "exited"
    /\ UNCHANGED <<option, disable_control, server_sender_close,
                   control_receiver_close, count, gens, req>>

\* lines 166-167: TcpListener::bind succeeds
StartControlBound ==
    /\ mainpc = "start_control"
    /\ lock = NoHolder
    /\ ~disable_control
    /\ mainpc' = "loop"
    /\ UNCHANGED <<option, disable_control, server_sender_close,
                   control_receiver_close, count, ctrlChan, lock, gens, req>>

\* start_control returns when the bind fails
AfterBindErr_Return == "exited"

\* lines 170-171: std::future::pending().await never completes, so the
\* return of line 172 is never reached
AfterBindErr == "bind_failed"

\* lines 168-173: TcpListener::bind fails; the task awaits a future that never
\* completes, still holding the mutex
StartControlBindFailed ==
    /\ mainpc = "start_control"
    /\ lock = NoHolder
    /\ ~disable_control
    /\ lock' = MainTask
    /\ mainpc' = AfterBindErr
    /\ UNCHANGED <<option, disable_control, server_sender_close,
                   control_receiver_close, count, ctrlChan, gens, req>>

\* lines 178-181: lock, take the receiver out of the struct, unlock
LoopTake ==
    /\ mainpc = "loop"
    /\ lock = NoHolder
    /\ control_receiver_close' = FALSE
    /\ mainpc' = "select"
    /\ UNCHANGED <<option, disable_control, server_sender_close, count, ctrlChan,
                   lock, gens, req>>

\* lines 184-195: a connection is accepted and a task serving it is spawned;
\* the request it carries asks for path p
SelectAccept(p) ==
    /\ mainpc = "select"
    /\ Len(req) < MaxReq
    /\ req' = Append(req, [path |-> p, pc |-> "waiting", status |-> 0,
                           body |-> "", config |-> 0, load |-> -1])
    /\ mainpc' = "accepted"
    /\ UNCHANGED <<option, disable_control, server_sender_close,
                   control_receiver_close, count, ctrlChan, lock, gens>>

\* lines 196-197: lock, put the receiver back, unlock
LoopRestore ==
    /\ mainpc = "accepted"
    /\ lock = NoHolder
    /\ control_receiver_close' = TRUE
    /\ mainpc' = "loop"
    /\ UNCHANGED <<option, disable_control, server_sender_close, count, ctrlChan,
                   lock, gens, req>>

\* line 199: receiver_await yields a termination signal
SelectRecv ==
    /\ mainpc = "select"
    /\ ctrlChan > 0
    /\ ctrlChan' = ctrlChan - 1
    /\ mainpc' = "signalled"
    /\ UNCHANGED <<option, disable_control, server_sender_close,
                   control_receiver_close, count, lock, gens, req>>

\* line 201: value.count -= 1
CountAfterSignal(c) == c - 1

\* line 203: if value.count <= 0 { break; }
LoopBreaks(c) == c <= 0

\* lines 200-206: lock, decrement, leave the loop at zero, else restore the receiver
LoopDecrement ==
    /\ mainpc = "signalled"
    /\ lock = NoHolder
    /\ count' = CountAfterSignal(count)
    /\ IF LoopBreaks(count')
       THEN mainpc' = "exited" /\ UNCHANGED control_receiver_close
       ELSE mainpc' = "loop" /\ control_receiver_close' = TRUE
    /\ UNCHANGED <<option, disable_control, server_sender_close, ctrlChan, lock, gens, req>>

(***************************************************************************)
(* The HTTP handlers: Operate::operate -> ControlApp::inner_operate.       *)
(* A request task first waits for the mutex (line 103) and then runs the   *)
(* whole match of lines 104-130 holding it.                                *)
(***************************************************************************)
\* line 103: data.lock().await
HandlerLock(h) ==
    /\ mainpc # "exited"
    /\ h \in DOMAIN req
    /\ req[h].pc = "waiting"
    /\ lock = NoHolder
    /\ lock' = h
    /\ req' = [req EXCEPT ![h].pc = "locked"]
    /\ UNCHANGED <<option, disable_control, server_sender_close,
                   control_receiver_close, count, ctrlChan, mainpc, gens>>

\* lines 107-111: the result of do_restart_serve is discarded (let _ =) and the
\* text response is built whatever it was; r is what arg::parse_env returned
ReloadResponse(r) == [status |-> 200, body |-> "reload_ok", config |-> 0]

\* lines 73-78: do_restart_serve does not assign self.option
OptionAfterReload(cur, loaded) == cur

\* "/reload", lines 105-112 with do_restart_serve, lines 73-78
OperateReload(h, r) ==
    /\ mainpc # "exited"
    /\ h \in DOMAIN req
    /\ req[h].pc = "locked"
    /\ req[h].path = "/reload"
    /\ IF r = 0
       THEN UNCHANGED <<option, count, gens, server_sender_close>>
       ELSE InnerStartServer(r) /\ option' = OptionAfterReload(option, r)
    /\ req' = [req EXCEPT ![h] = [path |-> @.path, pc |-> "done", load |-> r]
                                  @@ ReloadResponse(r)]
    /\ lock' = NoHolder
    /\ UNCHANGED <<disable_control, control_receiver_close, ctrlChan, mainpc>>

\* tokio mpsc Sender::send on the shutdown channel of generation g completes
\* at once with Err when the receiver is gone, and otherwise waits for room
CanSendShutdown(g) == ~gens[g].recv \/ gens[g].msgs < ShutCap
SendShutdown(g) ==
    IF gens[g].recv THEN [gens EXCEPT ![g].msgs = @ + 1] ELSE gens

\* line 115: the sender /stop uses is the one stored in server_sender_close
StopTarget == server_sender_close

\* "/stop", lines 113-119
OperateStop(h) ==
    /\ mainpc # "exited"
    /\ h \in DOMAIN req
    /\ req[h].pc = "locked"
    /\ req[h].path = "/stop"
    /\ IF StopTarget # 0
       THEN CanSendShutdown(StopTarget) /\ gens' = SendShutdown(StopTarget)
       ELSE UNCHANGED gens
    /\ req' = [req EXCEPT ![h] = [path |-> @.path, pc |-> "done", load |-> @.load,
                                  status |-> 200, body |-> "stop_ok", config |-> 0]]
    /\ lock' = NoHolder
    /\ UNCHANGED <<option, disable_control, server_sender_close,
                   control_receiver_close, count, ctrlChan, mainpc>>

\* line 121: the configuration /now serialises is value.option
NowConfig == option

\* "/now", lines 120-128; ok is whether serde_json::to_string_pretty succeeded,
\* and when it did not the request falls through to the 503 of lines 141-144
OperateNow(h, ok) ==
    /\ mainpc # "exited"
    /\ h \in DOMAIN req
    /\ req[h].pc = "locked"
    /\ req[h].path = "/now"
    /\ req' = [req EXCEPT ![h] =
                 IF ok THEN [path |-> @.path, pc |-> "done", load |-> @.load,
                             status |-> 200, body |-> "json", config |-> NowConfig]
                       ELSE [path |-> @.path, pc |-> "done", load |-> @.load,
                             status |-> 503, body |-> "choose", config |-> 0]]
    /\ lock' = NoHolder
    /\ UNCHANGED <<option, disable_control, server_sender_close,
                   control_receiver_close, count, ctrlChan, mainpc, gens>>

\* any other path, lines 129-144
OperateOther(h) ==
    /\ mainpc # "exited"
    /\ h \in DOMAIN req
    /\ req[h].pc = "locked"
    /\ req[h].path = "/other"
    /\ req' = [req EXCEPT ![h] = [path |-> @.path, pc |-> "done", load |-> @.load,
                                  status |-> 503, body |-> "choose", config |-> 0]]
    /\ lock' = NoHolder
    /\ UNCHANGED <<option, disable_control, server_sender_close,
                   control_receiver_close, count, ctrlChan, mainpc, gens>>

(***************************************************************************)
(* The tunnel client: CenterClient (streams/center_client.rs).             *)
(*                                                                         *)
(* A frame is a record: kind, the sock_map id, the domain of a Create and  *)
(* a sequence number standing for the payload of a Data.                   *)
(***************************************************************************)
Frame(k, i, d, n) == [kind |-> k, id |-> i, domain |-> d, seq |-> n]
\* ProtFrame::new_token(username, password), line 147
NewToken == Frame("Token", 0, "", 0)
\* ProtFrame::new_mapping(0, mappings), line 154
NewMapping == Frame("Mapping", 0, "", 0)
\* ProtCreate::new(id, domain), line 384, and the Create frames of the server
NewCreate(i, d) == Frame("Create", i, d, 0)
NewData(i, n) == Frame("Data", i, "", n)
\* ProtFrame::new_close(sock_map), lines 221, 273 and 307
NewClose(i) == Frame("Close", i, "", 0)
\* bytes Helper::decode_frame rejects
BadFrame == Frame("Bad", 0, "", 0)

\* MappingConfig values: a TCP mapping with a local address, a proxy-mode
\* mapping, and a TCP mapping whose local_addr is None
MapTcp == [name |-> "web", domain |-> "site", is_proxy |-> FALSE, local_addr |-> TRUE]
MapProxy == [name |-> "socks", domain |-> "gate", is_proxy |-> TRUE, local_addr |-> FALSE]
MapNoAddr == [name |-> "bare", domain |-> "lost", is_proxy |-> FALSE, local_addr |-> FALSE]
\* two mappings that a Create for "gate" both match: one by its domain, a TCP
\* mapping, and one by its name, a proxy-mode mapping
MapByDomain == [name |-> "alpha", domain |-> "gate", is_proxy |-> FALSE, local_addr |-> TRUE]
MapByName == [name |-> "gate", domain |-> "beta", is_proxy |-> TRUE, local_addr |-> FALSE]
\* the mapping lists a client is configured with
MappingLists == {<<>>, <<MapProxy>>, <<MapTcp, MapProxy, MapNoAddr>>}
\* the configurations of CenterClient::new: every combination of the
\* credentials, both transports and every mapping list occur
ClientConfig(t, u, p, m) == [tls_client |-> t, username |-> u, password |-> p, mappings |-> m]
ClientConfigs ==
    {ClientConfig(FALSE, TRUE, TRUE, <<MapTcp, MapProxy, MapNoAddr>>),
     ClientConfig(TRUE, FALSE, FALSE, <<MapProxy>>),
     ClientConfig(FALSE, FALSE, TRUE, <<>>),
     ClientConfig(TRUE, TRUE, FALSE, <<>>),
     ClientConfig(TRUE, TRUE, TRUE, <<>>)}
\* the domains the server names in a Create: the name or the domain of each
\* mapping the client registered, and one it did not register
CreateDomains ==
    {"nope"} \cup {d \in {"web", "gate", "lost"} :
                      \E i \in DOMAIN mappings : mappings[i].name = d \/ mappings[i].domain = d}

\* the ids the server allocates (even) and the ones the client allocates (odd)
ServerIds == {2 * i : i \in 1..NumServerIds}
LocalIds == {2 * i - 1 : i \in 1..MaxLocal}

\* what one frame from the server can be; n numbers the Data payloads
ServerFrames(n) ==
    {NewCreate(i, d) : i \in ServerIds, d \in CreateDomains}
    \cup {NewData(i, n) : i \in ServerIds \cup LocalIds}
    \cup {NewClose(i) : i \in {0} \cup ServerIds \cup LocalIds}
    \cup {NewMapping, NewToken, BadFrame}

\* HashMap::new(), line 139
EmptyMap == [k \in {} |-> 0]
\* HashMap::insert, lines 163 and 225
MapInsert(m, k, c) == [x \in DOMAIN m \cup {k} |-> IF x = k THEN c ELSE m[x]]

\* the two registration frames encoded in the opposite order
RegisterFrames_MappingFirst ==
    (IF Len(mappings) > 0 THEN <<NewMapping>> ELSE <<>>)
    \o (IF username /\ password THEN <<NewToken>> ELSE <<>>)

\* lines 146-155: Token when both credentials are set, then Mapping when
\* there are mappings, encoded into the fresh write buffer
RegisterFrames ==
    (IF username /\ password THEN <<NewToken>> ELSE <<>>)
    \o (IF Len(mappings) > 0 THEN <<NewMapping>> ELSE <<>>)

\* Sender::try_send, lines 282, 289 and 307: the frame is queued when the
\* receiver is alive and the bounded queue has room, and is dropped otherwise
TrySend(ch, f) ==
    IF ch.rx /\ Len(ch.queue) < VirtualCap
    THEN [ch EXCEPT !.queue = Append(@, f)]
    ELSE ch

\* lines 305-309: every Sender of the table is offered a Close
CloseAll(ss, m) ==
    [c \in DOMAIN ss |->
        IF \E k \in DOMAIN m : m[k] = c THEN TrySend(ss[c], NewClose(ss[c].id)) ELSE ss[c]]

\* the Senders of table m stay alive after inner_serve has returned
DropMap_Leaked(ss, m) == ss

\* the table is a local of inner_serve: when the function returns (lines 207,
\* 310) every Sender in it is dropped
DropMap(ss, m) ==
    [c \in DOMAIN ss |->
        IF \E k \in DOMAIN m : m[k] = c THEN [ss[c] EXCEPT !.tx = "dropped"] ELSE ss[c]]

\* HashMap::insert drops the Sender it replaces
DropReplaced(ss, m, k) ==
    IF k \in DOMAIN m THEN [ss EXCEPT ![m[k]].tx = "dropped"] ELSE ss

cfgvars == <<tls_client, username, password, mappings, limit, locals>>

(***************************************************************************)
(* The reconnect task spawned by serve, lines 325-363.                     *)
(***************************************************************************)
\* lines 329-338 and 340-349 up to the loop of inner_serve (lines 139-155):
\* the transport is taken, the table and the buffers are fresh, the
\* registration frames are encoded
ServeTunnel ==
    /\ taskpc = "loop"
    /\ stream \/ tls_stream
    /\ stream' = FALSE
    /\ tls_stream' = (stream /\ tls_stream)
    /\ tunnel' = tunnel + 1
    /\ map' = EmptyMap
    /\ read_buf' = <<>>
    /\ write_buf' = RegisterFrames
    /\ wire' = 0
    /\ servepc' = "select"
    /\ taskpc' = "serving"
    /\ UNCHANGED <<cfgvars, reachable, receiver, receiver_work, subs, NEXT_ID, nrecv>>

\* lines 339 and 350 (sleep after inner_serve) and 359 (sleep after a failed
\* connect): the timer fires and the loop goes on
SleepDone ==
    /\ taskpc \in {"sleep_served", "sleep_failed"}
    /\ taskpc' = "loop"
    /\ UNCHANGED <<cfgvars, stream, tls_stream, reachable, tunnel, servepc, map, read_buf,
                   write_buf, wire, receiver, receiver_work, subs, NEXT_ID, nrecv>>

\* inner_connect, lines 95-114, returning Ok: lines 354-357
InnerConnectOk ==
    /\ taskpc = "loop"
    /\ ~stream /\ ~tls_stream
    /\ reachable
    /\ stream' = ~tls_client
    /\ tls_stream' = tls_client
    /\ UNCHANGED <<cfgvars, taskpc, reachable, tunnel, servepc, map, read_buf,
                   write_buf, wire, receiver, receiver_work, subs, NEXT_ID, nrecv>>

\* the task leaves the loop when a connection attempt fails
AfterConnectErr_Return == "stopped"

\* lines 358-360: a failed connection attempt is followed by the sleep and the
\* next turn of the loop
AfterConnectErr == "sleep_failed"

\* inner_connect returning Err (dial, server name or TLS handshake): line 358
InnerConnectErr ==
    /\ taskpc = "loop"
    /\ ~stream /\ ~tls_stream
    /\ ~reachable
    /\ taskpc' = AfterConnectErr
    /\ UNCHANGED <<cfgvars, stream, tls_stream, reachable, tunnel, servepc, map, read_buf,
                   write_buf, wire, receiver, receiver_work, subs, NEXT_ID, nrecv>>

\* the network: the server becomes reachable or unreachable (observed by the
\* task only when it connects, so only then is the change modelled)
ToggleReachable ==
    /\ taskpc \in {"loop", "sleep_served", "sleep_failed"}
    /\ ~stream /\ ~tls_stream
    /\ reachable' = ~reachable
    /\ UNCHANGED <<cfgvars, stream, tls_stream, taskpc, tunnel, servepc, map, read_buf,
                   write_buf, wire, receiver, receiver_work, subs, NEXT_ID, nrecv>>

(***************************************************************************)
(* inner_serve: the biased select of lines 157-203.  The branches are      *)
(* polled in their order and a branch is taken when it is ready and no     *)
(* branch polled before it was.  The poll of the work channel and the poll *)
(* of the outbound channel are two steps: the tasks that fill the channels *)
(* run on other threads of the executor and can act between them.          *)
(***************************************************************************)
\* the select is about to poll its first branch
Selecting == taskpc = "serving" /\ servepc = "select"
\* the first branch was polled and found empty
Polled == taskpc = "serving" /\ servepc = "polled"

\* line 161: receiver_work.recv() is polled and is pending
PollWork ==
    /\ Selecting
    /\ receiver_work = <<>>
    /\ servepc' = "polled"
    /\ UNCHANGED <<cfgvars, stream, tls_stream, taskpc, reachable, tunnel, map, read_buf,
                   write_buf, wire, receiver, receiver_work, subs, NEXT_ID, nrecv>>

\* lines 157-203: every branch is pending (nothing to read yet), the select
\* waits and polls its branches again when it is woken
PollPending ==
    /\ Polled
    /\ receiver = <<>>
    /\ write_buf = <<>>
    /\ servepc' = "select"
    /\ UNCHANGED <<cfgvars, stream, tls_stream, taskpc, reachable, tunnel, map, read_buf,
                   write_buf, wire, receiver, receiver_work, subs, NEXT_ID, nrecv>>

\* lines 161-166: a Create of deal_new_stream is bound and encoded
RecvWork ==
    /\ Selecting
    /\ receiver_work # <<>>
    /\ LET w == Head(receiver_work)
       IN /\ subs' = [DropReplaced(subs, map, w.id) EXCEPT ![w.chan].tx = "map"]
          /\ map' = MapInsert(map, w.id, w.chan)
          /\ write_buf' = Append(write_buf, NewCreate(w.id, ""))
    /\ receiver_work' = Tail(receiver_work)
    /\ UNCHANGED <<cfgvars, stream, tls_stream, taskpc, reachable, tunnel, servepc,
                   read_buf, wire, receiver, NEXT_ID, nrecv>>

\* lines 168-172: a frame of the outbound channel is encoded
RecvOut ==
    /\ Polled
    /\ receiver # <<>>
    /\ write_buf' = Append(write_buf, Head(receiver))
    /\ receiver' = Tail(receiver)
    /\ servepc' = "select"
    /\ UNCHANGED <<cfgvars, stream, tls_stream, taskpc, reachable, tunnel, map,
                   read_buf, wire, receiver_work, subs, NEXT_ID, nrecv>>

\* the value of limit in a run whose transport never stops being readable
Endless == -1

\* lines 174-182: Ok(n), the bytes read hold the frames of chunk
Read(chunk) ==
    /\ Polled
    /\ receiver = <<>>
    /\ limit = Endless \/ nrecv + Len(chunk) <= limit
    /\ read_buf' = read_buf \o chunk
    /\ nrecv' = IF limit = Endless THEN nrecv ELSE nrecv + Len(chunk)
    /\ servepc' = "decode"
    /\ UNCHANGED <<cfgvars, stream, tls_stream, taskpc, reachable, tunnel, map,
                   write_buf, wire, receiver, receiver_work, subs, NEXT_ID>>

\* lines 176-179 and 183-186 with 305-310: Ok(0) or Err, the loop is left with
\* is_closed set, the Senders of the table are offered a Close and dropped
ReadClosed ==
    /\ Polled
    /\ receiver = <<>>
    /\ nrecv < limit
    /\ nrecv' = nrecv + 1
    /\ subs' = DropMap(CloseAll(subs, map), map)
    /\ map' = EmptyMap
    /\ read_buf' = <<>>
    /\ write_buf' = <<>>
    /\ wire' = 0
    /\ taskpc' = "sleep_served"
    /\ servepc' = "select"
    /\ UNCHANGED <<cfgvars, stream, tls_stream, reachable, tunnel,
                   receiver, receiver_work, NEXT_ID>>

\* lines 190-197: Ok(n), the head of the write buffer reaches the transport
Write ==
    /\ Polled
    /\ receiver = <<>>
    /\ write_buf # <<>>
    /\ wire' = wire + 1
    /\ write_buf' = Tail(write_buf)
    /\ servepc' = "select"
    /\ UNCHANGED <<cfgvars, stream, tls_stream, taskpc, reachable, tunnel, map,
                   read_buf, receiver, receiver_work, subs, NEXT_ID, nrecv>>

\* lines 198-200: Err(e), the error is logged and the select expression is
\* left; nothing else is done with it
WriteErr ==
    /\ Polled
    /\ receiver = <<>>
    /\ write_buf # <<>>
    /\ servepc' = "select"
    /\ UNCHANGED <<cfgvars, stream, tls_stream, taskpc, reachable, tunnel, map, read_buf,
                   write_buf, wire, receiver, receiver_work, subs, NEXT_ID, nrecv>>

(***************************************************************************)
(* inner_serve: the decode loop of lines 205-300, one frame per step.      *)
(***************************************************************************)
Decoding == taskpc = "serving" /\ servepc = "decode"

Max(S) == CHOOSE x \in S : \A y \in S : y <= x

\* lines 211-217: the loop over the mappings keeps the last one whose domain
\* or name equals the Create's domain; 0 stands for None
Lookup(d) ==
    LET hits == {i \in 1..Len(mappings) : mappings[i].domain = d \/ mappings[i].name = d}
    IN IF hits = {} THEN 0 ELSE Max(hits)

\* lines 227-278: what is spawned for a Create whose mapping is m: the proxy
\* engine, a task dialling local_addr, or nothing when local_addr is None
\* (line 249, continue)
HandlerFor(m) ==
    IF m.is_proxy THEN "proxy"
    ELSE IF ~m.local_addr THEN "none"
    ELSE "dial"

\* a send on the outbound channel: it waits for room while the reconnect task
\* holds the receiver and fails at once when the task is gone
CanSendOut == taskpc = "panicked" \/ Len(receiver) < ReceiverCap
SendOut(f) == IF taskpc = "panicked" THEN receiver ELSE Append(receiver, f)

\* the reply to a Create without mapping names no substream
MissReply_Zero(i) == NewClose(0)

\* line 221: ProtFrame::new_close(p.sock_map()), the reply to a Create
\* without mapping
MissReply(i) == NewClose(i)

\* lines 218-223: no mapping, Close{id} is sent on the outbound channel (the
\* loop waits in the send while the channel is full)
DecodeCreateMiss ==
    /\ Decoding
    /\ read_buf # <<>>
    /\ Head(read_buf).kind = "Create"
    /\ Lookup(Head(read_buf).domain) = 0
    /\ CanSendOut
    /\ receiver' = SendOut(MissReply(Head(read_buf).id))
    /\ read_buf' = Tail(read_buf)
    /\ UNCHANGED <<cfgvars, stream, tls_stream, taskpc, reachable, tunnel, servepc, map,
                   write_buf, wire, receiver_work, subs, NEXT_ID, nrecv>>

\* lines 224-278: a mapping is found, the channel of the substream is created
\* and its Sender bound in the table, and the handler is spawned
DecodeCreateHit ==
    /\ Decoding
    /\ read_buf # <<>>
    /\ Head(read_buf).kind = "Create"
    /\ Lookup(Head(read_buf).domain) # 0
    /\ LET f == Head(read_buf)
           h == HandlerFor(mappings[Lookup(f.domain)])
       IN /\ subs' = Append(DropReplaced(subs, map, f.id),
                            [id |-> f.id, tunnel |-> tunnel, origin |-> "server",
                             queue |-> <<>>, tx |-> "map", rx |-> (h # "none"),
                             task |-> h, rd |-> "open", sent |-> 0,
                             got |-> <<>>, read |-> <<>>])
          /\ map' = MapInsert(map, f.id, Len(subs) + 1)
    /\ read_buf' = Tail(read_buf)
    /\ UNCHANGED <<cfgvars, stream, tls_stream, taskpc, reachable, tunnel, servepc,
                   write_buf, wire, receiver, receiver_work, NEXT_ID, nrecv>>

\* try_send of a frame received from the server, with the history of the
\* substream: got lists the payloads of the Data frames the tunnel received for
\* the substream while its read side was open
Offer(ch, f) ==
    IF f.kind = "Data" /\ ch.rd = "open"
    THEN [TrySend(ch, f) EXCEPT !.got = Append(@, f.seq)]
    ELSE TrySend(ch, f)

\* a frame for a known sock_map is offered to the Sender created first
Forward_ToFirst(f) ==
    IF (f.kind = "Data" \/ f.id # 0) /\ f.id \in DOMAIN map
    THEN [subs EXCEPT ![1] = Offer(@, f)]
    ELSE subs

\* a frame whose sock_map is not in the table is offered to every Sender
Forward_Broadcast(f) ==
    IF (f.kind = "Data" \/ f.id # 0) /\ f.id \in DOMAIN map
    THEN [subs EXCEPT ![map[f.id]] = Offer(@, f)]
    ELSE IF f.id # 0 THEN [c \in DOMAIN subs |-> Offer(subs[c], f)]
    ELSE subs

\* lines 280-284 (Data) and 285-291 (Close): the frame is offered to the
\* Sender bound to its sock_map; a Close with sock_map 0 is only logged
Forward(f) ==
    IF (f.kind = "Data" \/ f.id # 0) /\ f.id \in DOMAIN map
    THEN [subs EXCEPT ![map[f.id]] = Offer(@, f)]
    ELSE subs

DecodeDataOrClose ==
    /\ Decoding
    /\ read_buf # <<>>
    /\ Head(read_buf).kind \in {"Data", "Close"}
    /\ subs' = Forward(Head(read_buf))
    /\ read_buf' = Tail(read_buf)
    /\ UNCHANGED <<cfgvars, stream, tls_stream, taskpc, reachable, tunnel, servepc, map,
                   write_buf, wire, receiver, receiver_work, NEXT_ID, nrecv>>

\* line 292: ProtFrame::Mapping(_) => {}
DecodeMapping ==
    /\ Decoding
    /\ read_buf # <<>>
    /\ Head(read_buf).kind = "Mapping"
    /\ read_buf' = Tail(read_buf)
    /\ UNCHANGED <<cfgvars, stream, tls_stream, taskpc, reachable, tunnel, servepc, map,
                   write_buf, wire, receiver, receiver_work, subs, NEXT_ID, nrecv>>

\* the Senders waiting in the work channel go with it
DropWork(ss, q) ==
    [c \in DOMAIN ss |->
        IF \E i \in DOMAIN q : q[i].chan = c THEN [ss[c] EXCEPT !.tx = "dropped"] ELSE ss[c]]

\* line 293: ProtFrame::Token(_) => todo!() panics; the task spawned by serve
\* unwinds and everything it owns is dropped: the table, the transport and
\* the receivers of both channels
DecodeToken ==
    /\ Decoding
    /\ read_buf # <<>>
    /\ Head(read_buf).kind = "Token"
    /\ subs' = DropWork(DropMap(subs, map), receiver_work)
    /\ map' = EmptyMap
    /\ read_buf' = <<>>
    /\ write_buf' = <<>>
    /\ wire' = 0
    /\ receiver' = <<>>
    /\ receiver_work' = <<>>
    /\ taskpc' = "panicked"
    /\ servepc' = "select"
    /\ UNCHANGED <<cfgvars, stream, tls_stream, reachable, tunnel, NEXT_ID, nrecv>>

\* the decode error is swallowed and the serve loop goes on
AfterDecodeErr_Continue == "serving"

\* line 207 with 330-339 and 341-350: the ? makes inner_serve return the
\* error, the caller discards it (let _ =) and sleeps before it reconnects
AfterDecodeErr == "sleep_served"

\* line 207: Helper::decode_frame(..)? returns the error; inner_serve returns
\* without the Close of lines 305-309 and its locals are dropped
DecodeBad ==
    /\ Decoding
    /\ read_buf # <<>>
    /\ Head(read_buf).kind = "Bad"
    /\ subs' = DropMap(subs, map)
    /\ map' = EmptyMap
    /\ read_buf' = <<>>
    /\ write_buf' = <<>>
    /\ wire' = 0
    /\ taskpc' = AfterDecodeErr
    /\ servepc' = "select"
    /\ UNCHANGED <<cfgvars, stream, tls_stream, reachable, tunnel,
                   receiver, receiver_work, NEXT_ID, nrecv>>

\* lines 296-298: no complete frame is left, back to the select
DecodeDone ==
    /\ Decoding
    /\ read_buf = <<>>
    /\ servepc' = "select"
    /\ UNCHANGED <<cfgvars, stream, tls_stream, taskpc, reachable, tunnel, map, read_buf,
                   write_buf, wire, receiver, receiver_work, subs, NEXT_ID, nrecv>>

(***************************************************************************)
(* deal_new_stream and the substream tasks.                                *)
(***************************************************************************)
\* option.server_id of the configuration
ServerIdOfOption == 0

\* the range of the u32 counter, 2^32 in the program, 2^IdBits in the model
IdRange == 2 ^ IdBits

\* Helper::calc_sock_map(server_id, id): the server id above the bits of the id
CalcSockMap(sid, i) == sid * IdRange + i

\* calc_next_id, lines 368-373: the counter is read and advanced by
\* wrapping_add(2) under the mutex
CalcNextId == CalcSockMap(ServerIdOfOption, NEXT_ID)

\* the counter advanced by one
NextIdAfter_PlusOne(n) == (n + 1) % IdRange

\* line 371: *lock = lock.wrapping_add(2)
NextIdAfter(n) == (n + 2) % IdRange

\* deal_new_stream, lines 375-391: an id is allocated, the Create and the
\* Sender of a fresh channel are sent on the work channel (waiting for room),
\* and the bridge task is spawned
DealNewStream ==
    /\ Cardinality({c \in DOMAIN subs : subs[c].origin = "local"}) < locals
    /\ taskpc = "panicked" \/ Len(receiver_work) < WorkCap
    /\ subs' = Append(subs, [id |-> CalcNextId, tunnel |-> tunnel, origin |-> "local",
                             queue |-> <<>>,
                             tx |-> IF taskpc = "panicked" THEN "dropped" ELSE "work",
                             rx |-> TRUE, task |-> "bridge", rd |-> "open", sent |-> 0,
                             got |-> <<>>, read |-> <<>>])
    /\ receiver_work' = IF taskpc = "panicked" THEN receiver_work
                        ELSE Append(receiver_work,
                                    [id |-> CalcNextId, chan |-> Len(subs) + 1])
    /\ NEXT_ID' = NextIdAfter(NEXT_ID)
    /\ UNCHANGED <<cfgvars, stream, tls_stream, taskpc, reachable, tunnel, servepc, map,
                   read_buf, write_buf, wire, receiver, nrecv>>

\* lines 256-264: HealthCheck::connect succeeds and the bridge starts
DialOk(c) ==
    /\ c \in DOMAIN subs
    /\ subs[c].task = "dial"
    /\ subs' = [subs EXCEPT ![c].task = "bridge"]
    /\ UNCHANGED <<cfgvars, stream, tls_stream, taskpc, reachable, tunnel, servepc, map,
                   read_buf, write_buf, wire, receiver, receiver_work, NEXT_ID, nrecv>>

\* lines 266-275: HealthCheck::connect fails, Close{sock_map} is sent on the
\* outbound channel and the task ends, dropping the receiver of the substream
DialErr(c) ==
    /\ c \in DOMAIN subs
    /\ subs[c].task = "dial"
    /\ CanSendOut
    /\ receiver' = SendOut(NewClose(subs[c].id))
    /\ subs' = [subs EXCEPT ![c].task = "ended", ![c].rx = FALSE, ![c].queue = <<>>,
                               ![c].rd = "gone", ![c].got = <<>>, ![c].read = <<>>]
    /\ UNCHANGED <<cfgvars, stream, tls_stream, taskpc, reachable, tunnel, servepc, map,
                   read_buf, write_buf, wire, receiver_work, NEXT_ID, nrecv>>

Bridging(c) == c \in DOMAIN subs /\ subs[c].task \in {"bridge", "proxy"}

\* the read side of a substream (TransStream / VirtualStream over the
\* Receiver of lines 224 and 381): recv yields the queued frames in order, a
\* Close ends the reading, and None is returned once the queue is empty and
\* the Sender is dropped; read lists the payloads delivered while the read
\* side is open
SubRecv(c) ==
    /\ Bridging(c)
    /\ subs[c].rd = "open"
    /\ \/ /\ subs[c].queue # <<>>
          /\ Head(subs[c].queue).kind = "Data"
          /\ subs' = [subs EXCEPT ![c].queue = Tail(@),
                                  ![c].read = Append(@, Head(subs[c].queue).seq)]
       \/ /\ subs[c].queue # <<>>
          /\ Head(subs[c].queue).kind = "Close"
          /\ subs' = [subs EXCEPT ![c].queue = Tail(@), ![c].rd = "closed",
                                  ![c].got = <<>>, ![c].read = <<>>]
       \/ /\ subs[c].queue = <<>>
          /\ subs[c].tx = "dropped"
          /\ subs' = [subs EXCEPT ![c].rd = "eof", ![c].got = <<>>, ![c].read = <<>>]
    /\ UNCHANGED <<cfgvars, stream, tls_stream, taskpc, reachable, tunnel, servepc, map,
                   read_buf, write_buf, wire, receiver, receiver_work, NEXT_ID, nrecv>>

\* the number of Data frames the substream tasks have sent
RECURSIVE SentTotal(_)
SentTotal(ss) == IF ss = <<>> THEN 0 ELSE Head(ss).sent + SentTotal(Tail(ss))

\* the write side of a substream: bytes of the local socket become a Data
\* frame on the clone of the outbound Sender (lines 230, 254 and 380)
SubSend(c) ==
    /\ Bridging(c)
    /\ SentTotal(subs) < MaxSubData
    /\ CanSendOut
    /\ receiver' = SendOut(NewData(subs[c].id, subs[c].sent + 1))
    /\ subs' = [subs EXCEPT ![c].sent = @ + 1]
    /\ UNCHANGED <<cfgvars, stream, tls_stream, taskpc, reachable, tunnel, servepc, map,
                   read_buf, write_buf, wire, receiver_work, NEXT_ID, nrecv>>

\* the end of a substream task: Close{sock_map} is sent and the Receiver dropped
SubFinish(c) ==
    /\ Bridging(c)
    /\ CanSendOut
    /\ receiver' = SendOut(NewClose(subs[c].id))
    /\ subs' = [subs EXCEPT ![c].task = "ended", ![c].rx = FALSE, ![c].queue = <<>>,
                               ![c].rd = "gone", ![c].got = <<>>, ![c].read = <<>>]
    /\ UNCHANGED <<cfgvars, stream, tls_stream, taskpc, reachable, tunnel, servepc, map,
                   read_buf, write_buf, wire, receiver_work, NEXT_ID, nrecv>>

\* the chunks of frames one read can bring when n frames were received before
RECURSIVE Chunks(_, _)
Chunks(n, len) ==
    IF len = 0 THEN {<<>>}
    ELSE {<<f>> \o rest : f \in ServerFrames(n + 1), rest \in Chunks(n + 1, len - 1)}

(***************************************************************************)
(* The codec of the Data frame: ProtData (prot/data.rs).                   *)
(*                                                                         *)
(* A buffer is the sequence of the bytes written to it.  The header of a   *)
(* frame takes HeaderLen places of the buffer; the model keeps its fields  *)
(* in the first four of them, since the layout of the header is set by     *)
(* ProtFrameHeader, which is not in src/.                                  *)
(***************************************************************************)
\* the range of the length field, 2^24 in the program
LenRange == 2 ^ LenBits
\* the range of a u32, 2^32 in the program
WordRange == 2 ^ WordBits
\* the number of bytes of a frame header
HeaderLen == 8

\* ProtData::new(sock_map, data), lines 18-20
ProtDataNew(sm, d) == [sock_map |-> sm, data |-> d]

\* ProtFrameHeader::new(kind, flag, sock_map), line 31
HeaderNew(k, fl, sm) == [kind |-> k, flag |-> fl, length |-> 0, sock_map |-> sm]

\* line 32: self.data.remaining() as u32, a usize cast to u32
AsU32(n) == n % WordRange

\* the bytes of header h
HeaderCells(h) ==
    <<h.kind, h.flag, h.length, h.sock_map>> \o [i \in 1..(HeaderLen - 4) |-> 0]

\* ProtFrameHeader::encode(buf): fails, writing nothing, when length does not
\* fit the length field, and writes the header otherwise
HeaderEncode(h, buf) ==
    IF h.length >= LenRange
    THEN [ok |-> FALSE, size |-> 0, buf |-> buf]
    ELSE [ok |-> TRUE, size |-> HeaderLen, buf |-> buf \o HeaderCells(h)]

\* the header read back from its bytes
HeaderDecode(cells) ==
    [kind |-> cells[1], flag |-> cells[2], length |-> cells[3], sock_map |-> cells[4]]

\* line 35: self.data.serialize(buf) appends the bytes and returns their number
BinarySerialize(d, buf) == [ok |-> TRUE, size |-> Len(d), buf |-> buf \o d]

\* the length field counts the header as well
EncodeData_LengthWithHeader(p, buf) ==
    LET head == [HeaderNew("Data", 0, p.sock_map)
                    EXCEPT !.length = AsU32(Len(p.data) + HeaderLen)]
        h == HeaderEncode(head, buf)
        d == BinarySerialize(p.data, h.buf)
    IN IF ~h.ok THEN [st |-> "err", size |-> 0, buf |-> h.buf]
       ELSE [st |-> "ok", size |-> h.size + d.size, buf |-> d.buf]

\* ProtData::encode, lines 29-37: the header with kind Data, flag zero, the
\* sock_map and the length of the payload is encoded (an error is returned
\* by the ?), then the payload is serialized; the sum of the two sizes is
\* returned
EncodeData(p, buf) ==
    LET head == [HeaderNew("Data", 0, p.sock_map) EXCEPT !.length = AsU32(Len(p.data))]
        h == HeaderEncode(head, buf)
        d == BinarySerialize(p.data, h.buf)
    IN IF ~h.ok THEN [st |-> "err", size |-> 0, buf |-> h.buf]
       ELSE [st |-> "ok", size |-> h.size + d.size, buf |-> d.buf]

\* ProtData::parse(header, buf), lines 22-27
ParseData(header, b) == [sock_map |-> header.sock_map, data |-> b]

\* a call of encode on the ProtData
EncodeStep ==
    /\ ret.st = "none"
    /\ LET r == EncodeData(pdata, out)
       IN /\ out' = r.buf
          /\ ret' = [st |-> r.st, size |-> r.size]
    /\ UNCHANGED <<pdata, back>>

\* the frame is read back: the header from the first HeaderLen bytes of the
\* buffer, and parse on the length bytes that follow it
ParseStep ==
    /\ ret.st = "ok"
    /\ back.st = "none"
    /\ LET h == HeaderDecode(SubSeq(out, 1, HeaderLen))
           f == ParseData(h, SubSeq(out, HeaderLen + 1, HeaderLen + h.length))
       IN back' = [st |-> "ok", kind |-> h.kind, sock_map |-> f.sock_map, data |-> f.data]
    /\ UNCHANGED <<pdata, out, ret>>

\* the payloads: n bytes, two contents for each length
Payload(n, k) == [i \in 1..n |-> (i + k) % 2]
\* the longest payload: one byte more than the range of a u32
MaxPayload == WordRange + 1

NoCall ==
    /\ out = <<>>
    /\ ret = [st |-> "none", size |-> 0]
    /\ back = [st |-> "none", kind |-> "", sock_map |-> 0, data |-> <<>>]

(***************************************************************************)
(* The listener wrapper: WrapListener (core/listeners/wrap_listener.rs).   *)
(***************************************************************************)
\* the constructors, lines 23-99: the ones given an address leave the listener
\* absent; the ones given a TcpListener hold it and have no addresses; the
\* tls ones own an acceptor
Constructors ==
    {[addrs |-> TRUE, listener |-> 0, accepter |-> FALSE],     \* new
     [addrs |-> FALSE, listener |-> 1, accepter |-> FALSE],    \* new_listener
     [addrs |-> TRUE, listener |-> 0, accepter |-> TRUE],      \* new_tls, new_tls_multi
     [addrs |-> FALSE, listener |-> 1, accepter |-> TRUE]}     \* new_listener_tls(_multi)

Descs == {"http", "tcp"}
\* what the environment makes of an accept: the connection arrives and, with
\* an acceptor, the handshake completes; l.accept() fails; the handshake fails
AcceptOutcomes == {"ok", "accept_err", "tls_err"}

Call(op, res, d, tls) == [op |-> op, res |-> res, desc |-> d, tls |-> tls]

\* lines 107-109
SetDesc(d) ==
    /\ desc # d
    /\ desc' = d
    /\ UNCHANGED <<addrs, listener, accepter, sockets, calls>>

\* lines 111-126: bind_ok is whether Helper::bind would succeed
TryInit(bind_ok) ==
    /\ Len(calls) < MaxCalls
    /\ IF listener # 0
       THEN /\ calls' = Append(calls, Call("try_init", "ok", "", FALSE))
            /\ UNCHANGED <<listener, sockets>>
       ELSE IF addrs
       THEN IF bind_ok
            THEN /\ sockets' = sockets + 1
                 /\ listener' = sockets + 1
                 /\ calls' = Append(calls, Call("try_init", "ok", "", FALSE))
            ELSE /\ calls' = Append(calls, Call("try_init", "bind_err", "", FALSE))
                 /\ UNCHANGED <<listener, sockets>>
       ELSE /\ calls' = Append(calls, Call("try_init", "unknow addrs", "", FALSE))
            /\ UNCHANGED <<listener, sockets>>
    /\ UNCHANGED <<addrs, accepter, desc>>

\* accept gives the listener up when it returns an error
ListenerAfterAccept_DroppedOnErr(l, res) == IF res = "ok" THEN l ELSE 0

\* line 129: accept only borrows the listener (match &self.listener), so the
\* field is what it was whatever accept returns
ListenerAfterAccept(l, res) == l

\* what accept returns, lines 129-144
AcceptResult(o) ==
    IF listener = 0 THEN "not init listener"
    ELSE IF o = "accept_err" THEN "accept_err"
    ELSE IF accepter /\ o = "tls_err" THEN "tls_err"
    ELSE "ok"

\* lines 128-145
Accept(o) ==
    /\ Len(calls) < MaxCalls
    /\ o = "tls_err" => accepter
    /\ LET res == AcceptResult(o)
       IN /\ calls' = Append(calls, IF res = "ok" THEN Call("accept", res, desc, accepter)
                                                  ELSE Call("accept", res, "", FALSE))
          /\ listener' = ListenerAfterAccept(listener, res)
    /\ UNCHANGED <<addrs, accepter, desc, sockets>>

InitListener ==
    /\ \E c \in Constructors :
          /\ addrs = c.addrs
          /\ listener = c.listener
          /\ accepter = c.accepter
          /\ sockets = c.listener
    /\ desc = ""
    /\ calls = <<>>

NoListener ==
    /\ addrs = FALSE
    /\ listener = 0
    /\ accepter = FALSE
    /\ desc = ""
    /\ sockets = 0
    /\ calls = <<>>

InitCodec ==
    /\ pdata \in {ProtDataNew(sm, Payload(n, k)) :
                     sm \in 0..(WordRange - 1), n \in 0..MaxPayload, k \in 0..1}
    /\ NoCall

\* a process that encodes nothing
NoCodec ==
    /\ pdata = ProtDataNew(0, <<>>)
    /\ NoCall

(***************************************************************************)
(* The control plane as a state machine.                                   *)
(***************************************************************************)
\* ControlApp::new, lines 55-64, for a configuration loaded at start-up
InitControl ==
    /\ option \in Configs
    /\ disable_control \in BOOLEAN
    /\ server_sender_close = 0
    /\ control_receiver_close = TRUE
    /\ count = 0
    /\ ctrlChan = 0
    /\ lock = NoHolder
    /\ mainpc = "new"
    /\ gens = <<>>
    /\ req = <<>>

\* CenterClient::new, lines 69-93, then connect (lines 116-126), then
\* serve up to the spawn of the reconnect task (lines 313-325)
InitClientWith(configs, lim, loc) ==
    /\ \E c \in configs :
          /\ tls_client = c.tls_client
          /\ username = c.username
          /\ password = c.password
          /\ mappings = c.mappings
    /\ stream = ~tls_client
    /\ tls_stream = tls_client
    /\ taskpc = "loop"
    /\ reachable = TRUE
    /\ tunnel = 0
    /\ servepc = "select"
    /\ map = EmptyMap
    /\ read_buf = <<>>
    /\ write_buf = <<>>
    /\ wire = 0
    /\ receiver = <<>>
    /\ receiver_work = <<>>
    /\ subs = <<>>
    /\ NEXT_ID = 1
    /\ nrecv = 0
    /\ limit = lim
    /\ locals = loc

InitClient == InitClientWith(ClientConfigs, MaxRecv, MaxLocal)

\* a process that runs no tunnel client
NoClient ==
    /\ tls_client = FALSE
    /\ username = FALSE
    /\ password = FALSE
    /\ mappings = <<>>
    /\ stream = FALSE
    /\ tls_stream = FALSE
    /\ taskpc = "none"
    /\ reachable = TRUE
    /\ tunnel = 0
    /\ servepc = "select"
    /\ map = EmptyMap
    /\ read_buf = <<>>
    /\ write_buf = <<>>
    /\ wire = 0
    /\ receiver = <<>>
    /\ receiver_work = <<>>
    /\ subs = <<>>
    /\ NEXT_ID = 1
    /\ nrecv = 0
    /\ limit = 0
    /\ locals = 0

\* a control plane that is constructed and not started
NoControl ==
    /\ option = 1
    /\ disable_control = FALSE
    /\ server_sender_close = 0
    /\ control_receiver_close = TRUE
    /\ count = 0
    /\ ctrlChan = 0
    /\ lock = NoHolder
    /\ mainpc = "none"
    /\ gens = <<>>
    /\ req = <<>>

Init == InitControl /\ NoClient /\ NoCodec /\ NoListener

Next ==
    \/ StartServe /\ UNCHANGED notctl
    \/ StartControlDisabled /\ UNCHANGED notctl
    \/ DisabledReturn /\ UNCHANGED notctl
    \/ StartControlBound /\ UNCHANGED notctl
    \/ StartControlBindFailed /\ UNCHANGED notctl
    \/ LoopTake /\ UNCHANGED notctl
    \/ \E p \in Paths : SelectAccept(p) /\ UNCHANGED notctl
    \/ LoopRestore /\ UNCHANGED notctl
    \/ SelectRecv /\ UNCHANGED notctl
    \/ LoopDecrement /\ UNCHANGED notctl
    \/ \E g \in DOMAIN gens : GenTerminate(g) /\ UNCHANGED notctl
    \/ \E h \in DOMAIN req : HandlerLock(h) /\ UNCHANGED notctl
    \/ \E h \in DOMAIN req, r \in ParseEnvResults : OperateReload(h, r) /\ UNCHANGED notctl
    \/ \E h \in DOMAIN req : OperateStop(h) /\ UNCHANGED notctl
    \/ \E h \in DOMAIN req, ok \in BOOLEAN : OperateNow(h, ok) /\ UNCHANGED notctl
    \/ \E h \in DOMAIN req : OperateOther(h) /\ UNCHANGED notctl

Spec == Init /\ [][Next]_vars

(***************************************************************************)
(* The tunnel client as a state machine.                                   *)
(***************************************************************************)
InitC == InitClient /\ NoControl /\ NoCodec /\ NoListener

NextC ==
    \/ ServeTunnel /\ UNCHANGED notcli
    \/ SleepDone /\ UNCHANGED notcli
    \/ InnerConnectOk /\ UNCHANGED notcli
    \/ InnerConnectErr /\ UNCHANGED notcli
    \/ ToggleReachable /\ UNCHANGED notcli
    \/ PollWork /\ UNCHANGED notcli
    \/ PollPending /\ UNCHANGED notcli
    \/ RecvWork /\ UNCHANGED notcli
    \/ RecvOut /\ UNCHANGED notcli
    \/ \E len \in 1..MaxChunk : \E chunk \in Chunks(nrecv, len) :
          Read(chunk) /\ UNCHANGED notcli
    \/ ReadClosed /\ UNCHANGED notcli
    \/ Write /\ UNCHANGED notcli
    \/ WriteErr /\ UNCHANGED notcli
    \/ DecodeCreateMiss /\ UNCHANGED notcli
    \/ DecodeCreateHit /\ UNCHANGED notcli
    \/ DecodeDataOrClose /\ UNCHANGED notcli
    \/ DecodeMapping /\ UNCHANGED notcli
    \/ DecodeToken /\ UNCHANGED notcli
    \/ DecodeBad /\ UNCHANGED notcli
    \/ DecodeDone /\ UNCHANGED notcli
    \/ DealNewStream /\ UNCHANGED notcli
    \/ \E c \in DOMAIN subs : DialOk(c) /\ UNCHANGED notcli
    \/ \E c \in DOMAIN subs : DialErr(c) /\ UNCHANGED notcli
    \/ \E c \in DOMAIN subs : SubRecv(c) /\ UNCHANGED notcli
    \/ \E c \in DOMAIN subs : SubSend(c) /\ UNCHANGED notcli
    \/ \E c \in DOMAIN subs : SubFinish(c) /\ UNCHANGED notcli

SpecClient == InitC /\ [][NextC]_vars

\* the largest number of substream channels a run creates
MaxSubs == MaxRecv + MaxLocal

(***************************************************************************)
(* The inbound data path while the first tunnel is served: a longer run    *)
(* of the server side, in which the client does not reconnect and the      *)
(* substream tasks only read.                                              *)
(***************************************************************************)
InitD ==
    /\ InitClientWith({ClientConfig(TRUE, FALSE, FALSE, <<MapTcp, MapProxy, MapNoAddr>>)},
                      MaxRecvData, MaxLocal)
    /\ NoControl
    /\ NoCodec
    /\ NoListener

NextD ==
    \/ ServeTunnel /\ UNCHANGED notcli
    \/ PollWork /\ UNCHANGED notcli
    \/ PollPending /\ UNCHANGED notcli
    \/ RecvWork /\ UNCHANGED notcli
    \/ RecvOut /\ UNCHANGED notcli
    \/ \E len \in 1..MaxChunk : \E chunk \in Chunks(nrecv, len) :
          Read(chunk) /\ UNCHANGED notcli
    \/ Write /\ UNCHANGED notcli
    \/ WriteErr /\ UNCHANGED notcli
    \/ DecodeCreateMiss /\ UNCHANGED notcli
    \/ DecodeCreateHit /\ UNCHANGED notcli
    \/ DecodeDataOrClose /\ UNCHANGED notcli
    \/ DecodeMapping /\ UNCHANGED notcli
    \/ DecodeToken /\ UNCHANGED notcli
    \/ DecodeBad /\ UNCHANGED notcli
    \/ DecodeDone /\ UNCHANGED notcli
    \/ DealNewStream /\ UNCHANGED notcli
    \/ \E c \in DOMAIN subs : DialOk(c) /\ UNCHANGED notcli
    \/ \E c \in DOMAIN subs : SubRecv(c) /\ UNCHANGED notcli

SpecData == InitD /\ [][NextD]_vars

(***************************************************************************)
(* The id allocator: a run with enough deal_new_stream calls for the       *)
(* counter to wrap, on a tunnel from which the server sends nothing.       *)
(***************************************************************************)
InitI ==
    /\ InitClientWith({ClientConfig(FALSE, FALSE, TRUE, <<>>)}, 0, MaxLocalIds)
    /\ NoControl
    /\ NoCodec
    /\ NoListener

NextI ==
    \/ ServeTunnel /\ UNCHANGED notcli
    \/ PollWork /\ UNCHANGED notcli
    \/ PollPending /\ UNCHANGED notcli
    \/ RecvWork /\ UNCHANGED notcli
    \/ RecvOut /\ UNCHANGED notcli
    \/ Write /\ UNCHANGED notcli
    \/ WriteErr /\ UNCHANGED notcli
    \/ DealNewStream /\ UNCHANGED notcli
    \/ \E c \in DOMAIN subs : SubFinish(c) /\ UNCHANGED notcli

SpecIds == InitI /\ [][NextI]_vars

(***************************************************************************)
(* The mapping lookup: the first tunnel of a client configured with the    *)
(* two mappings that match the same Create, in either order.               *)
(***************************************************************************)
InitL ==
    /\ InitClientWith({ClientConfig(FALSE, FALSE, FALSE, <<MapByDomain, MapByName>>),
                       ClientConfig(FALSE, FALSE, FALSE, <<MapByName, MapByDomain>>)},
                      MaxRecv, 0)
    /\ NoControl
    /\ NoCodec
    /\ NoListener

NextL ==
    \/ ServeTunnel /\ UNCHANGED notcli
    \/ PollWork /\ UNCHANGED notcli
    \/ PollPending /\ UNCHANGED notcli
    \/ RecvOut /\ UNCHANGED notcli
    \/ \E len \in 1..MaxChunk : \E chunk \in Chunks(nrecv, len) :
          Read(chunk) /\ UNCHANGED notcli
    \/ ReadClosed /\ UNCHANGED notcli
    \/ Write /\ UNCHANGED notcli
    \/ WriteErr /\ UNCHANGED notcli
    \/ DecodeCreateMiss /\ UNCHANGED notcli
    \/ DecodeCreateHit /\ UNCHANGED notcli
    \/ DecodeDataOrClose /\ UNCHANGED notcli
    \/ DecodeMapping /\ UNCHANGED notcli
    \/ DecodeToken /\ UNCHANGED notcli
    \/ DecodeBad /\ UNCHANGED notcli
    \/ DecodeDone /\ UNCHANGED notcli
    \/ \E c \in DOMAIN subs : DialOk(c) /\ UNCHANGED notcli
    \/ \E c \in DOMAIN subs : DialErr(c) /\ UNCHANGED notcli

SpecLookup == InitL /\ [][NextL]_vars

(***************************************************************************)
(* Heavy inbound traffic: the first tunnel on a transport that is readable *)
(* whenever it is polled (the server keeps sending frames the client       *)
(* ignores) and whose writes succeed.                                      *)
(***************************************************************************)
InitS ==
    /\ InitClientWith({ClientConfig(FALSE, TRUE, TRUE, <<MapProxy>>)}, Endless, MaxLocal)
    /\ NoControl
    /\ NoCodec
    /\ NoListener

NextS ==
    \/ ServeTunnel /\ UNCHANGED notcli
    \/ PollWork /\ UNCHANGED notcli
    \/ PollPending /\ UNCHANGED notcli
    \/ RecvWork /\ UNCHANGED notcli
    \/ RecvOut /\ UNCHANGED notcli
    \/ Read(<<NewMapping>>) /\ UNCHANGED notcli
    \/ Write /\ UNCHANGED notcli
    \/ DecodeMapping /\ UNCHANGED notcli
    \/ DecodeDone /\ UNCHANGED notcli
    \/ DealNewStream /\ UNCHANGED notcli
    \/ \E c \in DOMAIN subs : SubSend(c) /\ UNCHANGED notcli
    \/ \E c \in DOMAIN subs : SubFinish(c) /\ UNCHANGED notcli

SpecStarve == InitS /\ [][NextS]_vars

\* the steps of inner_serve in such a run: the executor runs the task
\* whenever it can take a step
ServeStep ==
    \/ PollWork /\ UNCHANGED notcli
    \/ PollPending /\ UNCHANGED notcli
    \/ RecvWork /\ UNCHANGED notcli
    \/ RecvOut /\ UNCHANGED notcli
    \/ Read(<<NewMapping>>) /\ UNCHANGED notcli
    \/ Write /\ UNCHANGED notcli
    \/ DecodeMapping /\ UNCHANGED notcli
    \/ DecodeDone /\ UNCHANGED notcli

FairStarve ==
    /\ SpecStarve
    /\ WF_vars(ServeTunnel /\ UNCHANGED notcli)
    /\ WF_vars(ServeStep)

(***************************************************************************)
(* The codec as a state machine: a ProtData is encoded into an empty       *)
(* buffer and the frame is read back from it.                              *)
(***************************************************************************)
InitK == InitCodec /\ NoControl /\ NoClient /\ NoListener

NextK ==
    \/ EncodeStep /\ UNCHANGED notcod
    \/ ParseStep /\ UNCHANGED notcod

SpecCodec == InitK /\ [][NextK]_vars

(***************************************************************************)
(* The listener wrapper on its own.                                        *)
(***************************************************************************)
InitW ==
    /\ InitListener
    /\ NoControl
    /\ NoClient
    /\ NoCodec

NextW ==
    \/ \E d \in Descs : SetDesc(d) /\ UNCHANGED notlsn
    \/ \E ok \in BOOLEAN : TryInit(ok) /\ UNCHANGED notlsn
    \/ \E o \in AcceptOutcomes : Accept(o) /\ UNCHANGED notlsn

SpecWrap == InitW /\ [][NextW]_vars

\* the steps of the reconnect loop outside inner_serve: the executor runs the
\* task and the timers fire
ReconnectStep ==
    (ServeTunnel \/ SleepDone \/ InnerConnectOk \/ InnerConnectErr) /\ UNCHANGED notcli

\* a request task that holds the mutex runs the match of inner_operate to its
\* return, which drops the guard
OperateStep(h) ==
    \/ \E r \in ParseEnvResults : OperateReload(h, r) /\ UNCHANGED notctl
    \/ OperateStop(h) /\ UNCHANGED notctl
    \/ \E ok \in BOOLEAN : OperateNow(h, ok) /\ UNCHANGED notctl
    \/ OperateOther(h) /\ UNCHANGED notctl

\* the steps of the control loop that lock the mutex
LoopLockStep == (LoopTake \/ LoopRestore \/ LoopDecrement) /\ UNCHANGED notctl

\* the control plane under an executor that runs every task that can proceed
FairControl ==
    /\ Spec
    /\ WF_vars(LoopLockStep)
    /\ \A h \in 1..MaxReq : WF_vars(OperateStep(h))

\* a substream task whose receiver has something to return is run
ReaderStep(c) == SubRecv(c) /\ UNCHANGED notcli

FairClient ==
    /\ SpecClient
    /\ WF_vars(ReconnectStep)
    /\ \A c \in 1..MaxSubs : WF_vars(ReaderStep(c))


(***************************************************************************)
(* Properties of the control plane.                                        *)
(***************************************************************************)
\* the step in which request h finishes inner_operate for path p
Answers(h, p) ==
    /\ h \in DOMAIN req
    /\ req[h].pc = "locked"
    /\ req[h].path = p
    /\ req'[h].pc = "done"

\* the control loop of lines 177-210 has been left
LoopExited == mainpc = "exited" /\ ~disable_control

\* signals that were sent and are not yet subtracted from count
SignalsInFlight == ctrlChan + (IF mainpc = "signalled" THEN 1 ELSE 0)

\* C1: lifecycle refcount.  While the control loop runs, count is never
\* negative and equals the number of generations that have not yet sent their
\* termination signal plus the signals sent and not yet subtracted: every
\* generation started adds one and sends one signal, every received signal
\* subtracts one.  The loop exits only with count = 0 and no generation left
\* that has not terminated.
C1_Refcount ==
    /\ ~(disable_control /\ mainpc = "exited") =>
          /\ count >= 0
          /\ count = Cardinality(LiveGens) + SignalsInFlight
    /\ LoopExited => count = 0 /\ LiveGens = {}

\* C1 witness: the loop has exited after a reload had started a second generation
C1_Witness == LoopExited /\ Len(gens) >= 2

\* C2 (as claimed): with the start-up generation and a reloaded generation both
\* live, a /stop request signals the oldest generation and only that one, and
\* the process exits only after both have stopped.
C2_StopTerminatesOldestOnly ==
    [][ /\ \A h \in DOMAIN req :
             (Answers(h, "/stop") /\ Len(gens) = 2 /\ Live(1) /\ Live(2)) =>
                 /\ gens[1].recv /\ gens'[1].msgs = gens[1].msgs + 1
                 /\ gens'[2].msgs = gens[2].msgs
        /\ (mainpc' = "exited" /\ ~disable_control) => LiveGens' = {}
      ]_vars

\* a generation that can still be told to shut down: its channel has a
\* receiver and somebody holds a sender of it
Reachable(g) == gens[g].recv /\ gens[g].senders # {}

\* C3 (as claimed): a /stop request delivers a shutdown signal to the
\* generation whose sender is stored in server_sender_close, and after a
\* /reload every generation still running can be reached by a shutdown signal.
C3_StopReachesEveryGeneration ==
    [][ /\ \A h \in DOMAIN req :
             (Answers(h, "/stop") /\ Live(server_sender_close)) =>
                 gens'[server_sender_close].msgs = gens[server_sender_close].msgs + 1
        /\ Len(gens') >= 2 => \A g \in LiveGens' : Reachable(g)'
      ]_vars

\* the spawned block of lines 86-94 has no statement by which a generation
\* reports that it is ready (the call that would is commented out, lines 89-91)
ReportedReady(g) == FALSE

\* C4 (as claimed): while the generation started by a /reload has not reported
\* ready, the shutdown channel of the generation before it is neither
\* signalled nor closed.
C4_OldSignalledOnlyAfterReady ==
    \A g \in DOMAIN gens :
        (g + 1 \in DOMAIN gens /\ ~ReportedReady(g + 1)) =>
            gens[g].senders # {} /\ gens[g].msgs = 0

\* C5 (as claimed): a /reload whose configuration fails to load leaves count,
\* the stored sender and the generations unchanged and answers 500; 200 is
\* answered only when a new generation was started.
C5_FailedReloadAnswers500 ==
    [][ \A h \in DOMAIN req :
            Answers(h, "/reload") =>
                /\ req'[h].load = 0 =>
                      /\ UNCHANGED <<count, server_sender_close, gens>>
                      /\ req'[h].status = 500
                /\ req'[h].status = 200 => Len(gens') = Len(gens) + 1
      ]_vars

\* C6 (as claimed): the configuration /now returns is the one the most
\* recently started generation was given.
C6_NowReturnsLiveConfig ==
    [][ \A h \in DOMAIN req :
            (Answers(h, "/now") /\ req'[h].status = 200) =>
                req'[h].config = gens[Len(gens)].option
      ]_vars

(***************************************************************************)
(* Properties of the tunnel client.                                        *)
(***************************************************************************)
\* the kinds of the registration frames the configuration calls for
ExpectedRegistration ==
    (IF username /\ password THEN <<"Token">> ELSE <<>>)
    \o (IF Len(mappings) > 0 THEN <<"Mapping">> ELSE <<>>)

\* C7: on every tunnel the first frames written to the transport are Token
\* (when username and password are both configured) and then Mapping (when
\* mappings are configured): the k-th frame written on a connection, for k up
\* to the number of registration frames, is the k-th registration frame, so no
\* Create, Data or Close precedes them.
C7_RegistrationFirst ==
    [][ (wire' = wire + 1 /\ wire < Len(ExpectedRegistration)) =>
            Head(write_buf).kind = ExpectedRegistration[wire + 1]
      ]_vars

\* C7 witness: on a reconnection, with credentials and mappings configured, a
\* third frame has been written after the Token and the Mapping
C7_Witness ==
    /\ tunnel >= 2
    /\ username /\ password /\ Len(mappings) > 0
    /\ wire >= 3

\* the serve loop has returned and no tunnel is being served
Ended == tunnel >= 1 /\ taskpc \notin {"serving", "panicked"}
\* the positions of the retry cycle of lines 328-362
Retrying == taskpc \in {"loop", "sleep_served", "sleep_failed"}

\* C8: once the serve loop has returned (end of stream, read error or
\* undecodable frame) the task stays in its retry cycle until a tunnel is
\* served again, the cycle has no exit, and if the server is eventually
\* reachable for good a tunnel is eventually served again.
C8_Reconnects ==
    /\ [](Ended => Retrying)
    /\ [][Retrying => (Retrying' \/ taskpc' = "serving")]_vars
    /\ (<>[]reachable) => (Ended ~> (taskpc = "serving"))

\* C8 witness: after the serve loop returned, a later tunnel is being served
C8_Witness == tunnel >= 2 /\ taskpc = "serving" /\ servepc = "select"

\* substream c was bound in the table of a tunnel that has ended (or was
\* replaced in the table)
LeftTable(c) ==
    /\ c \in DOMAIN subs
    /\ subs[c].tx # "work"
    /\ \A k \in DOMAIN map : map[k] # c

\* C9: when a tunnel ends, every substream of its table whose task is reading
\* eventually sees a Close or the end of its channel, whatever its queue held,
\* and a substream that left the table is never bound in a later table.
C9_SubstreamsClosed ==
    /\ \A c \in 1..MaxSubs :
          (LeftTable(c) /\ Bridging(c) /\ subs[c].rd = "open")
              ~> (c \in DOMAIN subs /\ subs[c].rd # "open")
    /\ [][\A c \in DOMAIN subs : LeftTable(c) => LeftTable(c)']_vars

\* C9 witness: a tunnel has just ended while the queue of a reading substream
\* was full of Data, so that the Close did not fit
C9_Witness ==
    \E c \in DOMAIN subs :
        /\ LeftTable(c) /\ Bridging(c)
        /\ subs[c].rd = "open"
        /\ Len(subs[c].queue) = VirtualCap
        /\ \A i \in DOMAIN subs[c].queue : subs[c].queue[i].kind = "Data"
        /\ taskpc = "sleep_served"

\* the step that decodes a Create
DecodesCreate ==
    /\ Decoding
    /\ read_buf # <<>>
    /\ Head(read_buf).kind = "Create"
    /\ read_buf' = Tail(read_buf)

\* C10 (as claimed): every Create{id, domain} is answered: a handler is
\* started for id when the domain equals the domain or the name of a mapping,
\* and whenever no handler is started Close{id} is sent to the server.
C10_CreateAnswered ==
    [][ DecodesCreate =>
          LET f == Head(read_buf)
              started == /\ Len(subs') = Len(subs) + 1
                         /\ subs'[Len(subs')].id = f.id
                         /\ subs'[Len(subs')].task \in {"proxy", "dial"}
              closed == receiver' = Append(receiver, NewClose(f.id))
          IN /\ (\E i \in DOMAIN mappings :
                    mappings[i].domain = f.domain \/ mappings[i].name = f.domain)
                 => started
             /\ ~started => closed
      ]_vars

\* the Create at the head of the read buffer names a domain that is neither
\* the domain nor the name of a configured mapping
MissAtHead ==
    /\ Decoding
    /\ read_buf # <<>>
    /\ Head(read_buf).kind = "Create"
    /\ \A i \in DOMAIN mappings :
          mappings[i].domain # Head(read_buf).domain /\ mappings[i].name # Head(read_buf).domain

DialFails(c) ==
    /\ c \in DOMAIN subs
    /\ subs[c].task = "dial"
    /\ subs'[c].task = "ended"

\* C12 (as claimed): when the dial to local_addr fails for a Create{id},
\* exactly one Close{id} is appended to the outbound channel, the task has
\* sent no Data{id} and sends none afterwards, and the tunnel, the table and
\* every other substream are as they were.
C12_DialFailure ==
    [][ /\ \A c \in 1..MaxSubs :
              DialFails(c) =>
                 /\ receiver' = Append(receiver, Frame("Close", subs[c].id, "", 0))
                 /\ subs[c].sent = 0
                 /\ taskpc' = taskpc /\ servepc' = servepc /\ tunnel' = tunnel
                 /\ map' = map
                 /\ \A d \in DOMAIN subs : d # c => subs'[d] = subs[d]
        /\ \A c \in DOMAIN subs :
              subs[c].task = "ended" => subs'[c].sent = subs[c].sent
      ]_vars

\* the frame at the head of the read buffer is a Data or a Close whose
\* sock_map is not 0 and is not in the substream table
UnknownAtHead ==
    /\ Decoding
    /\ read_buf # <<>>
    /\ Head(read_buf).kind \in {"Data", "Close"}
    /\ Head(read_buf).id # 0
    /\ Head(read_buf).id \notin DOMAIN map

\* C13: the step that handles a Data or Close whose non-zero sock_map is not
\* in the table changes no substream queue, produces no frame for the
\* server, leaves the table as it is and leaves the tunnel up.
C13_UnknownIdDropped ==
    [][ (UnknownAtHead /\ read_buf' = Tail(read_buf)) =>
          /\ subs' = subs
          /\ receiver' = receiver
          /\ write_buf' = write_buf
          /\ map' = map
          /\ tunnel' = tunnel
          /\ taskpc' = "serving" /\ servepc' = "decode"
      ]_vars

\* C13 witness: such a frame is about to be handled while the table holds a
\* different substream whose task is reading and whose queue has room
C13_Witness ==
    /\ UnknownAtHead
    /\ \E k \in DOMAIN map :
          /\ Bridging(map[k])
          /\ subs[map[k]].rd = "open"
          /\ subs[map[k]].queue = <<>>

\* sequence a is a prefix of sequence b
IsPrefix(a, b) ==
    /\ Len(a) <= Len(b)
    /\ \A i \in 1..Len(a) : a[i] = b[i]

\* C14 (as claimed): for every substream, the Data payloads delivered to its
\* read side are at every moment a prefix of the Data payloads the tunnel
\* received for it: same order, none missing in the middle, none duplicated.
C14_OrderedPrefix ==
    \A c \in DOMAIN subs : IsPrefix(subs[c].read, subs[c].got)

\* the frame at the head of the read buffer is a Data or a Close
DataOrCloseAtHead ==
    /\ Decoding
    /\ read_buf # <<>>
    /\ Head(read_buf).kind \in {"Data", "Close"}

\* C15: the step that handles a Data or Close carrying sock_map A changes the
\* inbound queue of no substream other than the one registered in the table
\* for A, and that substream's id is A.
C15_Isolation ==
    [][ (DataOrCloseAtHead /\ read_buf' = Tail(read_buf)) =>
          \A c \in DOMAIN subs :
              subs'[c].queue # subs[c].queue =>
                 /\ Head(read_buf).id \in DOMAIN map
                 /\ map[Head(read_buf).id] = c
                 /\ subs[c].id = Head(read_buf).id
      ]_vars

\* C15 witness: two substreams with different ids are in the table, both
\* tasks are reading, and a Data has been queued for one of them only
C15_Witness ==
    \E a, b \in DOMAIN map :
        /\ a # b
        /\ Bridging(map[a]) /\ subs[map[a]].rd = "open"
        /\ Bridging(map[b]) /\ subs[map[b]].rd = "open"
        /\ subs[map[a]].queue = <<>>
        /\ subs[map[b]].queue # <<>>
        /\ Head(subs[map[b]].queue).kind = "Data"

\* the frame at the head of the read buffer is a Data for a substream of the
\* table whose receiver is alive and whose inbound queue is full
DataAtFullQueue ==
    /\ Decoding
    /\ read_buf # <<>>
    /\ Head(read_buf).kind = "Data"
    /\ Head(read_buf).id \in DOMAIN map
    /\ subs[map[Head(read_buf).id]].rx
    /\ Len(subs[map[Head(read_buf).id]].queue) = VirtualCap

\* C16 (as claimed): the step that handles a Data for a known substream whose
\* inbound queue is full closes the substream: a Close for its id is issued
\* to the server and its Sender leaves the table, so no Data is dropped with
\* the substream left open.
C16_FullQueueCloses ==
    [][ (DataAtFullQueue /\ read_buf' = Tail(read_buf)) =>
          /\ receiver' = Append(receiver, Frame("Close", Head(read_buf).id, "", 0))
          /\ subs'[map[Head(read_buf).id]].tx = "dropped"
      ]_vars

\* the frame at the head of the read buffer is a Close for a substream of
\* the table whose task is reading
CloseForReader ==
    /\ Decoding
    /\ read_buf # <<>>
    /\ Head(read_buf).kind = "Close"
    /\ Head(read_buf).id # 0
    /\ Head(read_buf).id \in DOMAIN map
    /\ Bridging(map[Head(read_buf).id])
    /\ subs[map[Head(read_buf).id]].rd = "open"

\* C17 (as claimed): a Close{id} received for a substream of the table
\* reaches its read side in every state of the inbound queue, a full queue
\* included: after the step that handles it the Close is the last frame of
\* the queue, so the reader returns EOF once it has taken the frames before.
C17_CloseReachesReader ==
    [][ (CloseForReader /\ read_buf' = Tail(read_buf)) =>
          LET q == subs'[map[Head(read_buf).id]].queue
          IN q # <<>> /\ q[Len(q)].kind = "Close"
      ]_vars

\* the step that moves a Data of the outbound channel into the write buffer
EncodesData ==
    /\ receiver # <<>>
    /\ Head(receiver).kind = "Data"
    /\ write_buf' = Append(write_buf, Head(receiver))

\* C18 (as claimed): for a substream opened by deal_new_stream the Create{id}
\* enters the write buffer before any Data{id}: when a Data{id} is moved into
\* the write buffer, the Create{id} is no longer waiting in the work channel.
C18_CreateBeforeData ==
    [][ EncodesData =>
          \A i \in DOMAIN receiver_work : receiver_work[i].id # Head(receiver).id
      ]_vars

\* c and d are two running tasks (each sends frames under its id on the
\* outbound channel and reads its inbound queue) that were created on the same
\* tunnel under the same id
Live2(c, d) ==
    /\ c # d
    /\ Bridging(c) /\ Bridging(d)
    /\ subs[c].id = subs[d].id
    /\ subs[c].tunnel = subs[d].tunnel

\* C19 (as claimed): at most one live substream exists per sock_map per
\* tunnel: there is never a state in which two running handler or bridge
\* tasks created on the same tunnel work under the same id.
C19_OneLivePerId ==
    \A c, d \in DOMAIN subs : ~Live2(c, d)

\* C20 (as claimed): the allocator never returns an id that a live substream
\* holds, also after the counter has wrapped: two live substreams opened by
\* deal_new_stream never share an id.
C20_NoSharedLocalId ==
    \A c, d \in DOMAIN subs :
        (/\ c # d
         /\ subs[c].origin = "local" /\ subs[d].origin = "local"
         /\ Bridging(c) /\ Bridging(d))
        => subs[c].id # subs[d].id

\* the counter part of a sock_map: the bits below the server id
CounterPart(i) == i % IdRange

\* the step of a deal_new_stream call
Allocates ==
    /\ Len(subs') = Len(subs) + 1
    /\ subs'[Len(subs')].origin = "local"

\* C21: the counter is odd in every state and every id deal_new_stream
\* allocated has an odd counter part, also after the counter has wrapped; a
\* call obtains the value the counter holds and leaves another value in it in
\* the same step, so the next call cannot read the same value.
C21_OddAtomic ==
    /\ [](/\ NEXT_ID % 2 = 1
          /\ \A c \in DOMAIN subs :
                subs[c].origin = "local" => CounterPart(subs[c].id) % 2 = 1)
    /\ [][ Allocates =>
             /\ CounterPart(subs'[Len(subs')].id) = NEXT_ID
             /\ NEXT_ID' # NEXT_ID
             /\ \A c \in DOMAIN subs :
                   (subs[c].origin = "local"
                    /\ \A d \in DOMAIN subs : d > c => subs[d].origin # "local")
                   => subs'[Len(subs')].id # subs[c].id
         ]_vars

\* C21 witness: the counter has wrapped: an id allocated earlier is above it
C21_Witness ==
    \E c \in DOMAIN subs :
        subs[c].origin = "local" /\ CounterPart(subs[c].id) > NEXT_ID

\* the largest number of frames a tunnel of one run writes: the registration
\* frames, and a Create, the Data frames and a Close per local substream
MaxWire == 2 + MaxLocal * 2 + MaxSubData

\* C22 (as claimed): whenever the write buffer of the tunnel holds a frame and
\* the writes of the transport succeed, a frame is eventually written, also
\* when the transport is readable every time it is polled.
C22_WriteNotStarved ==
    \A n \in 0..MaxWire :
        (taskpc = "serving" /\ write_buf # <<>> /\ wire = n) ~> (wire > n)

\* the step that handles a Close whose sock_map is 0
HandlesCloseZero ==
    /\ Decoding
    /\ read_buf # <<>>
    /\ Head(read_buf).kind = "Close"
    /\ Head(read_buf).id = 0
    /\ read_buf' # read_buf

\* C23 (as claimed): a Close with sock_map 0 aborts the tunnel: the step that
\* handles it ends the serve loop, every Sender of the table is dropped so
\* that its substream is closed, and the task is in the backoff that precedes
\* the reconnection.
C23_CloseZeroAborts ==
    [][ HandlesCloseZero =>
          /\ taskpc' = "sleep_served"
          /\ map' = EmptyMap
          /\ \A k \in DOMAIN map : subs'[map[k]].tx = "dropped"
      ]_vars

\* the step that handles a Mapping or a Token received from the server
HandlesMappingOrToken ==
    /\ Decoding
    /\ read_buf # <<>>
    /\ Head(read_buf).kind \in {"Mapping", "Token"}
    /\ read_buf' # read_buf

\* C24 (as claimed): a Mapping or a Token received by the client is ignored:
\* the step that handles it only takes the frame off the read buffer; the
\* table, the substreams, the write buffer and both channels are unchanged,
\* the loop goes on decoding and the reconnect task is alive.
C24_MappingTokenIgnored ==
    [][ HandlesMappingOrToken =>
          /\ read_buf' = Tail(read_buf)
          /\ map' = map
          /\ subs' = subs
          /\ write_buf' = write_buf
          /\ receiver' = receiver
          /\ receiver_work' = receiver_work
          /\ taskpc' = "serving" /\ servepc' = "decode"
      ]_vars

\* C25 (as claimed): a write error on the transport ends the tunnel: the
\* step in which writer.write returns Err leaves the serve loop, the Senders
\* of the table are dropped and the task is in the backoff that precedes the
\* reconnection.
C25_WriteErrorEndsTunnel ==
    [][ WriteErr =>
          /\ taskpc' = "sleep_served"
          /\ map' = EmptyMap
          /\ \A k \in DOMAIN map : subs'[map[k]].tx = "dropped"
      ]_vars

\* the step that meets an undecodable frame at the head of the read buffer
HandlesBadFrame ==
    /\ Decoding
    /\ read_buf # <<>>
    /\ Head(read_buf).kind = "Bad"
    /\ read_buf' # read_buf

\* C26: an undecodable frame fails the tunnel.  The step that meets it ends
\* the serve loop with the rest of the read buffer discarded: no substream
\* queue, no channel and no handler changes on account of a later frame; the
\* transport is gone and the Senders of the table are dropped; and from the
\* backoff that follows the task always reaches the call of inner_connect.
C26_BadFrameFailsTunnel ==
    /\ [][ HandlesBadFrame =>
             /\ taskpc' = "sleep_served"
             /\ read_buf' = <<>>
             /\ map' = EmptyMap
             /\ ~stream' /\ ~tls_stream'
             /\ \A k \in DOMAIN map : subs'[map[k]].tx = "dropped"
             /\ Len(subs') = Len(subs)
             /\ \A c \in DOMAIN subs : subs'[c].queue = subs[c].queue
             /\ receiver' = receiver
             /\ receiver_work' = receiver_work
         ]_vars
    /\ (taskpc = "sleep_served") ~> (taskpc = "loop" /\ ~stream /\ ~tls_stream)

\* C26 witness: the tunnel has just failed on an undecodable frame that
\* followed a Create in the same run: the handler of the Create is running,
\* its Sender is dropped and, unlike after an end of stream, no Close was
\* queued for it
C26_Witness ==
    /\ taskpc = "sleep_served"
    /\ \E c \in DOMAIN subs :
          /\ subs[c].origin = "server"
          /\ subs[c].tunnel = tunnel
          /\ Bridging(c)
          /\ subs[c].tx = "dropped"
          /\ subs[c].rd = "open"
          /\ subs[c].queue = <<>>

\* the mappings whose domain, and the mappings whose name, is d
ByDomain(d) == {i \in DOMAIN mappings : mappings[i].domain = d}
ByName(d) == {i \in DOMAIN mappings : mappings[i].name = d}

\* C31 (as claimed): the step that decodes a Create whose domain is the
\* domain of a mapping handles it with a mapping matched by domain, whatever
\* the order of the mappings; a mapping matched by name handles it only when
\* none matches by domain.
C31_DomainBeforeName ==
    [][ DecodesCreate =>
          LET d == Head(read_buf).domain
              chosen == IF ByDomain(d) # {} THEN ByDomain(d) ELSE ByName(d)
          IN chosen # {} =>
                /\ Len(subs') = Len(subs) + 1
                /\ \E i \in chosen : subs'[Len(subs')].task = HandlerFor(mappings[i])
      ]_vars

\* the loop is inside the send of line 221 and the outbound channel has no room
BlockedOnOutbound == MissAtHead /\ ~CanSendOut

\* C32 (as claimed): the serve loop never waits on its own outbound channel:
\* whenever it handles a Create that no mapping matches, the channel that only
\* this loop drains has room for the Close reply, so the loop goes on to its
\* select.
C32_NeverBlocksOnOutbound == MissAtHead => CanSendOut

\* once the loop waits in that send it waits for ever: nothing but the loop
\* itself takes frames out of the channel
OutboundBlockStays == [][BlockedOnOutbound => BlockedOnOutbound']_vars

\* frame f is a Data frame of a substream that a Create of an earlier tunnel
\* created: a substream of the server has its id, and every such substream was
\* created before the current tunnel began.  (A Close frame with that id looks
\* the same as the reply to an unmatched Create of the current tunnel, so
\* only Data frames are told apart here.)
OfEarlierTunnel(f) ==
    /\ f.kind = "Data"
    /\ \E c \in DOMAIN subs : subs[c].id = f.id /\ subs[c].origin = "server"
    /\ \A c \in DOMAIN subs :
          subs[c].id = f.id => subs[c].origin = "server" /\ subs[c].tunnel < tunnel

\* the step of the serve loop that writes the first pending frame to the transport
WritesFrame ==
    /\ Polled
    /\ receiver = <<>>
    /\ write_buf # <<>>
    /\ write_buf' = Tail(write_buf)
    /\ wire' = wire + 1

\* C33 (as claimed): after a reconnection no frame of a substream that was
\* created on an earlier tunnel is written onto the current tunnel; stated for
\* the Data frames, which the claim covers together with the Close frames.
C33_NoStaleFrames == [][WritesFrame => ~OfEarlierTunnel(Head(write_buf))]_vars

\* C34: a request handler that holds the ControlApp mutex always releases it
\* (the send of /stop on the shutdown channel does not keep it waiting), and
\* the control loop that has taken a termination signal out of the channel
\* always gets the mutex and processes the signal.
C34_HandlersRelease ==
    /\ \A h \in 1..MaxReq : (lock = h) ~> (lock # h)
    /\ (mainpc = "signalled") ~> (mainpc \in {"loop", "exited"})

\* a second /stop holds the mutex, after a first one has used the shutdown
\* channel of the same generation, while the loop waits for the mutex with a
\* termination signal in hand
C34_Witness ==
    /\ mainpc = "signalled"
    /\ \E h \in DOMAIN req :
          /\ lock = h
          /\ req[h].path = "/stop"
          /\ StopTarget # 0
          /\ \E k \in DOMAIN req : k # h /\ req[k].path = "/stop" /\ req[k].pc = "done"

\* the step is a call of op on the WrapListener
Called(op) == Len(calls') = Len(calls) + 1 /\ calls'[Len(calls')].op = op
Returned(res) == calls'[Len(calls')].res = res

\* C35: accept on a listener that is not initialised returns "not init
\* listener" and changes nothing; try_init with a listener held returns Ok and
\* binds nothing, and it binds only when none is held and addresses are
\* configured; a failed bind leaves the listener absent; and whatever accept
\* returns, a failed TLS handshake included, the listener is held afterwards.
C35_ListenerStateMachine ==
    [][ /\ (Called("accept") /\ listener = 0) =>
              /\ Returned("not init listener")
              /\ UNCHANGED <<addrs, listener, accepter, desc, sockets>>
        /\ (Called("try_init") /\ listener # 0) =>
              Returned("ok") /\ listener' = listener /\ sockets' = sockets
        /\ (Called("try_init") /\ sockets' # sockets) =>
              listener = 0 /\ addrs /\ Returned("ok") /\ listener' = sockets'
        /\ (Called("try_init") /\ Returned("bind_err")) => listener' = 0
        /\ (Called("accept") /\ listener # 0) => listener' = listener
      ]_vars

\* a listener bound by try_init, on which a second try_init was a no-op, has
\* failed a TLS handshake and accepted a connection afterwards
C35_Witness ==
    /\ listener # 0
    /\ sockets = 1
    /\ \E i, j, k \in DOMAIN calls :
          /\ i < j /\ j < k
          /\ calls[i].op = "try_init" /\ calls[i].res = "ok"
          /\ calls[j].op = "accept" /\ calls[j].res = "tls_err"
          /\ calls[k].op = "accept" /\ calls[k].res = "ok"

(***************************************************************************)
(* Properties of start_control without a control port.                     *)
(***************************************************************************)
\* C29 (as claimed): with disable_control set, start_control binds no socket
\* and accepts no request, and it returns only when the termination signals
\* have brought count to zero, no generation being left running.
C29_DisabledBlocksOnCount ==
    disable_control =>
        /\ mainpc \notin {"loop", "select", "accepted", "signalled", "bind_failed"}
        /\ req = <<>>
        /\ mainpc = "exited" => (count = 0 /\ LiveGens = {})

\* the step of start_control in which the bind of the control address fails
BindFails ==
    /\ mainpc = "start_control"
    /\ ~disable_control
    /\ mainpc' \notin {"start_control", "loop"}

\* C30: when the bind of the control address fails, start_control blocks and
\* never leaves that state, whatever signals the generations send; the step
\* changes neither count nor the generations nor the stored shutdown sender,
\* and while it blocks no generation is sent a shutdown signal or loses the
\* sender of its shutdown channel.
C30_BindFailureBlocks ==
    /\ [][BindFails =>
             /\ mainpc' = "bind_failed"
             /\ UNCHANGED <<count, gens, server_sender_close, ctrlChan>>]_vars
    /\ [][mainpc = "bind_failed" =>
             /\ mainpc' = "bind_failed"
             /\ count' = count
             /\ \A g \in DOMAIN gens :
                   /\ gens'[g].msgs = gens[g].msgs
                   /\ gens'[g].senders = gens[g].senders]_vars
    /\ [](mainpc = "bind_failed" => req = <<>>)

\* C30 witness: the bind has failed and every generation has since sent its
\* termination signal
C30_Witness ==
    /\ mainpc = "bind_failed"
    /\ gens # <<>>
    /\ LiveGens = {}
    /\ ctrlChan > 0

(***************************************************************************)
(* Properties of the codec.                                                *)
(***************************************************************************)
\* the length field of the header at the start of the buffer
LengthWritten == HeaderDecode(SubSeq(out, 1, HeaderLen)).length

\* C27 (as claimed): encode fails for a payload of LenRange bytes or more and
\* leaves the buffer as it was, succeeds for a payload of LenRange - 1 bytes,
\* and whenever it succeeds the length field holds the number of bytes of
\* the payload, never a truncated or wrapped value.
C27_LengthBound ==
    ret.st # "none" =>
        /\ Len(pdata.data) >= LenRange => (ret.st = "err" /\ out = <<>>)
        /\ Len(pdata.data) = LenRange - 1 => ret.st = "ok"
        /\ ret.st = "ok" => LengthWritten = Len(pdata.data)

\* C28: for every sock_map and every payload below LenRange bytes, encode
\* succeeds and returns HeaderLen plus the number of payload bytes; the
\* buffer holds a header of kind Data with the frame's sock_map and the
\* number of payload bytes as length, followed by the payload; and the frame
\* parsed from that header and payload has the same sock_map and bytes.
C28_RoundTrip ==
    (Len(pdata.data) < LenRange /\ ret.st # "none") =>
        /\ ret.st = "ok"
        /\ ret.size = HeaderLen + Len(pdata.data)
        /\ Len(out) = HeaderLen + Len(pdata.data)
        /\ HeaderDecode(SubSeq(out, 1, HeaderLen)).kind = "Data"
        /\ HeaderDecode(SubSeq(out, 1, HeaderLen)).sock_map = pdata.sock_map
        /\ LengthWritten = Len(pdata.data)
        /\ \A i \in 1..Len(pdata.data) : out[HeaderLen + i] = pdata.data[i]
        /\ back.st = "ok" =>
              /\ back.kind = "Data"
              /\ back.sock_map = pdata.sock_map
              /\ Len(back.data) = Len(pdata.data)
              /\ \A i \in 1..Len(pdata.data) : back.data[i] = pdata.data[i]

\* C28 witness: the longest payload the length field allows, under the
\* largest sock_map, has been encoded and parsed back
C28_Witness ==
    /\ back.st = "ok"
    /\ Len(pdata.data) = LenRange - 1
    /\ pdata.sock_map = WordRange - 1

====
